---- MODULE Spec2Model ----
(***************************************************************************)
(* A model of the Figma API client of parity (client.ts): the RateLimiter  *)
(* class (a FIFO queue drained by one asynchronous loop with a minimum     *)
(* delay between dispatches) and the FigmaClient that owns one limiter per *)
(* API tier.                                                               *)
(*                                                                         *)
(* JavaScript runs one callback at a time: every action below is one       *)
(* synchronous run of code, from the point where the event loop enters it  *)
(* to the next await.  Time is Date.now() in milliseconds.                 *)
(***************************************************************************)
EXTENDS Integers, Sequences, FiniteSets, TLC

VARIABLES
  clock,      \* Date.now()
  ticks,      \* how many free clock advances the environment has made
  limiter,    \* limiter id -> the fields of one RateLimiter and its drain loops
  task,       \* the calls of schedule(), in call order
  log,        \* history: the dispatches (calls of fn), in order
  run,        \* run id -> one call of exportAllFrames: its locals and position
  fs          \* the cache directory: whether it exists, and its files

vars == <<clock, ticks, limiter, task, log, run, fs>>

-----------------------------------------------------------------------------
(* Bounds of the model *)

\* schedule() calls in one behaviour
MaxTasks == 3
\* direct calls of API methods (getFile, exportImages) in one behaviour
MaxApiCalls == 2
\* free clock advances in one behaviour
MaxTicks == 2
\* nodes of one export request that the server renders
MaxRendered == 2
\* free clock advances during one exportAllFrames call
MaxExportTicks == 1
\* nodes of a document handed to findFrames directly
MaxNodes == 4

\* Date.now() when the program starts: any value beyond every minDelay
\* (lastRequestTime starts at 0, so the first dispatch never waits)
StartClock == 100000

\* amounts the environment advances the clock by
TickSteps == {600}

\* requestsPerMinute of a standalone limiter
Rates == {20, 70, 100}

\* the cache directory does not exist
NoCache == [dir |-> FALSE, files |-> <<>>]

-----------------------------------------------------------------------------
(* RateLimiter *)

\* a plausible slip: Math.floor instead of Math.ceil
MinDelayFloor(R) == 60000 \div R

\* constructor: this.minDelay = Math.ceil(60000 / requestsPerMinute)
MinDelayOf(R) == (60000 + R - 1) \div R

\* field initialisers and constructor; loops is the set of active
\* processQueue activations, each suspended at an await
NewRateLimiter(R) ==
  [ rpm             |-> R,
    queue           |-> <<>>,
    processing      |-> FALSE,
    lastRequestTime |-> 0,
    minDelay        |-> MinDelayOf(R),
    loops           |-> {} ]

\* a processQueue activation suspended in `await this.sleep(ms)`
Sleeping(wake) == [pc |-> "sleep", wake |-> wake, cur |-> 0]
\* a processQueue activation suspended in `await task()`
Awaiting(t) == [pc |-> "task", wake |-> 0, cur |-> t]

\* what one synchronous run of the drain loop leaves: the limiter's fields,
\* the activation's next suspension (acts is empty when it returned) and the
\* task whose fn it called (0: none)
Ran(L, acts, started) == [lim |-> L, acts |-> acts, started |-> started]

\* line 153: the loop is left, this.processing = false
LoopExit(L) == Ran([L EXCEPT !.processing = FALSE], {}, 0)

\* a plausible slip: queue.pop() for queue.shift(), the newest task first
PopAndRun(L, now) ==
  IF Len(L.queue) = 0
    THEN LoopExit(L)
    ELSE Ran([L EXCEPT !.queue = SubSeq(@, 1, Len(@) - 1), !.lastRequestTime = now],
             {Awaiting(L.queue[Len(L.queue)])}, L.queue[Len(L.queue)])

\* a plausible slip: the planned time of the dispatch is recorded, the last
\* dispatch plus the minimum delay, for Date.now()
ShiftAndRunPlanned(L, now) ==
  IF Len(L.queue) = 0
    THEN LoopExit(L)
    ELSE Ran([L EXCEPT !.queue = Tail(@),
                       !.lastRequestTime = @ + L.minDelay],
             {Awaiting(Head(L.queue))}, Head(L.queue))

\* lines 146-150: const task = this.queue.shift(); if (task) {
\*   this.lastRequestTime = Date.now(); await task(); }
\* with an empty queue shift() gives undefined and the while test ends the loop
ShiftAndRun(L, now) ==
  IF Len(L.queue) = 0
    THEN LoopExit(L)
    ELSE Ran([L EXCEPT !.queue = Tail(@), !.lastRequestTime = now],
             {Awaiting(Head(L.queue))}, Head(L.queue))

\* a plausible slip: the wait is skipped
MustSleepNever(elapsed, minDelay) == FALSE

\* a plausible slip: the loop always yields to a timer before a dispatch
MustSleepAlways(elapsed, minDelay) == TRUE

\* line 142: if (elapsed < this.minDelay)
MustSleep(elapsed, minDelay) == elapsed < minDelay

\* lines 138-151, from the while test to the next await
WhileHead(L, now) ==
  IF Len(L.queue) = 0
    THEN LoopExit(L)
    ELSE LET elapsed == now - L.lastRequestTime
         IN  IF MustSleep(elapsed, L.minDelay)
               THEN Ran(L, {Sleeping(now + (L.minDelay - elapsed))}, 0)
               ELSE ShiftAndRun(L, now)

\* a plausible slip: the processing latch is not tested
EnterGuardNoLatch(L) == Len(L.queue) # 0

\* line 135: if (this.processing || this.queue.length === 0) return;
EnterGuard(L) == ~L.processing /\ Len(L.queue) # 0

\* lines 134-151: processQueue() up to its first await
ProcessQueue(L, now) ==
  IF EnterGuard(L)
    THEN WhileHead([L EXCEPT !.processing = TRUE], now)
    ELSE Ran(L, {}, 0)

-----------------------------------------------------------------------------
(* Tasks and futures *)

\* the states of a promise; val is a record with a kind field
Pending == [st |-> "pending", val |-> [kind |-> "none"]]
Resolved(v) == [st |-> "resolved", val |-> v]
Rejected(e) == [st |-> "rejected", val |-> e]

\* the record of one schedule(fn) call: the limiter, the thunk, where the
\* queued closure is (queued, running: fn called and awaited, done), what
\* fn's promise settled with, what the promise schedule() returned settled
\* with, how the closure's own promise ended, and (history) how many
\* dispatches had been made when schedule() was called and whether that call
\* began a drain loop (entered processQueue past its guard), and what fn
\* received before it settled (the HTTP response, for a request)
NewTask(l, fn, seen, entered) ==
  [lim |-> l, fn |-> fn, state |-> "queued", result |-> Pending,
   future |-> Pending, closure |-> "open", seen |-> seen, entered |-> entered,
   resp |-> [kind |-> "none"]]

\* the tasks a run of the loop started: fn() is called (line 124)
Start(tasks, t) ==
  IF t = 0 THEN tasks ELSE [tasks EXCEPT ![t].state = "running"]

\* history: task t of limiter l was dispatched at time now, by the run of the
\* loop that began in schedule(), after a sleep ("timer") or after the
\* previous task ("resume")
Logged(lg, l, t, now, by) ==
  IF t = 0 THEN lg
  ELSE Append(lg, [lim |-> l, task |-> t, at |-> now, by |-> by])

\* lines 120-132: schedule(fn) pushes the closure and calls processQueue(),
\* which runs synchronously up to its first await
DoSchedule(l, fn) ==
  LET t   == Len(task) + 1
      L1  == [limiter[l] EXCEPT !.queue = Append(@, t)]
      ran == ProcessQueue(L1, clock)
  IN  /\ limiter' = [limiter EXCEPT ![l] = [ran.lim EXCEPT !.loops = @ \cup ran.acts]]
      /\ task' = Start(Append(task, NewTask(l, fn, Len(log), L1 # ran.lim)),
                       ran.started)
      /\ log' = Logged(log, l, ran.started, clock, "schedule")

\* a plausible slip: resolve/reject kept in a field that every schedule()
\* call overwrites, so a closure settles the future of the latest call
SettlesLatest(t) == Len(task)

\* lines 122-129: the closure captures the resolve and reject of its own
\* schedule() call
Settles(t) == t

\* a plausible slip: no try/catch, the rejection of fn leaves the closure
ClosureEndUncaught(o) == IF o.st = "rejected" THEN "threw" ELSE "returned"

\* lines 123-128: try { resolve(await fn()) } catch (error) { reject(error) }
\* the closure's own promise is fulfilled whatever fn did
ClosureEnd(o) == "returned"

\* lines 123-128: fn, having received resp, settles its promise with outcome
\* o; the closure resolves or rejects the caller's future with it and ends
FnSettle(t, o, resp) ==
  /\ t \in 1..Len(task)
  /\ task[t].state = "running"
  /\ task' = [task EXCEPT ![t].state = "done", ![t].result = o,
                          ![t].closure = ClosureEnd(o),
                          ![t].resp = resp,
                          ![Settles(t)].future = o]
  /\ UNCHANGED <<clock, ticks, limiter, log, run, fs>>

\* a plausible slip: `if` for `while`, the loop is left after one task
AfterTaskOnce(L, now) == LoopExit(L)

\* line 138, reached again from line 149: while (this.queue.length > 0)
AfterTask(L, now) == WhileHead(L, now)

\* a plausible slip: the loop gives up waiting for a task that has not
\* settled and goes on to its test
DrainResumeTimedOut(l, a) ==
  /\ a \in limiter[l].loops
  /\ a.pc = "task"
  /\ LET ran == AfterTask(limiter[l], clock)
     IN  /\ limiter' = [limiter EXCEPT ![l] =
                          [ran.lim EXCEPT !.loops = (@ \ {a}) \cup ran.acts]]
         /\ task' = Start(task, ran.started)
         /\ log' = Logged(log, l, ran.started, clock, "resume")
  /\ UNCHANGED <<clock, ticks, run, fs>>

\* line 149 resumes: `await task()` returns and the loop goes to its test;
\* had the closure's promise rejected, the await would throw out of
\* processQueue and end the activation with processing left set
DrainResume(l, a) ==
  /\ a \in limiter[l].loops
  /\ a.pc = "task"
  /\ task[a.cur].state = "done"
  /\ LET ran == IF task[a.cur].closure = "threw"
                  THEN Ran(limiter[l], {}, 0)
                  ELSE AfterTask(limiter[l], clock)
     IN  /\ limiter' = [limiter EXCEPT ![l] =
                          [ran.lim EXCEPT !.loops = (@ \ {a}) \cup ran.acts]]
         /\ task' = Start(task, ran.started)
         /\ log' = Logged(log, l, ran.started, clock, "resume")
  /\ UNCHANGED <<clock, ticks, run, fs>>

\* line 143 resumes: the timer of sleep() fired, the loop shifts and runs
TimerFire(l, a) ==
  /\ a \in limiter[l].loops
  /\ a.pc = "sleep"
  /\ clock >= a.wake
  /\ LET ran == ShiftAndRun(limiter[l], clock)
     IN  /\ limiter' = [limiter EXCEPT ![l] =
                          [ran.lim EXCEPT !.loops = (@ \ {a}) \cup ran.acts]]
         /\ task' = Start(task, ran.started)
         /\ log' = Logged(log, l, ran.started, clock, "timer")
  /\ UNCHANGED <<clock, ticks, run, fs>>

-----------------------------------------------------------------------------
(* The clock *)

\* the clock advances by some amount
Tick(d) ==
  /\ ticks < MaxTicks
  /\ clock' = clock + d
  /\ ticks' = ticks + 1
  /\ UNCHANGED <<limiter, task, log, run, fs>>

\* the clock reaches the deadline of a pending setTimeout
AdvanceToTimer(l, a) ==
  /\ a \in limiter[l].loops
  /\ a.pc = "sleep"
  /\ clock < a.wake
  /\ clock' = a.wake
  /\ UNCHANGED <<ticks, limiter, task, log, run, fs>>

-----------------------------------------------------------------------------
(* A standalone RateLimiter with callers that pass it opaque thunks *)

Solo == <<"solo", "any">>

\* the thunk of the n-th call, and what its promise can settle with
Thunk(n) == [kind |-> "fn", id |-> n]
ThunkValue(n) == [kind |-> "value", id |-> n]
ThunkError(n) == [kind |-> "error", id |-> n]
ThunkOutcomes(fn) == {Resolved(ThunkValue(fn.id)), Rejected(ThunkError(fn.id))}

InitRL ==
  /\ clock = StartClock
  /\ ticks = 0
  /\ \E R \in Rates : limiter = (Solo :> NewRateLimiter(R))
  /\ task = <<>>
  /\ log = <<>>
  /\ run = <<>>
  /\ fs = NoCache

\* a caller calls schedule(fn) on the limiter
Call(l) ==
  /\ Len(task) < MaxTasks
  /\ DoSchedule(l, Thunk(Len(task) + 1))
  /\ UNCHANGED <<clock, ticks, run, fs>>

ThunkSettles ==
  \E t \in 1..Len(task) : \E o \in ThunkOutcomes(task[t].fn) :
    FnSettle(t, o, [kind |-> "none"])

LoopResumes ==
  \E l \in DOMAIN limiter : \E a \in limiter[l].loops : DrainResume(l, a)

TimerFires ==
  \E l \in DOMAIN limiter : \E a \in limiter[l].loops : TimerFire(l, a)

TimerDue ==
  \E l \in DOMAIN limiter : \E a \in limiter[l].loops : AdvanceToTimer(l, a)

TimePasses == (\E d \in TickSteps : Tick(d)) \/ TimerDue

Calls == \E l \in DOMAIN limiter : Call(l)

NextRL == Calls \/ ThunkSettles \/ LoopResumes \/ TimerFires \/ TimePasses

SpecRL == InitRL /\ [][NextRL]_vars

\* the liveness of the event loop: a resumable drain loop is resumed, a due
\* timer fires, and time reaches the deadline of a pending timer.  Nothing
\* makes a thunk's promise settle.
FairRL ==
  /\ WF_vars(LoopResumes)
  /\ WF_vars(TimerFires)
  /\ WF_vars(TimerDue)

\* the limiters the client constructs: 20 and 100 requests per minute
ClientRates == {20, 100}

InitLiveRL == InitRL /\ limiter[Solo].rpm \in ClientRates

LiveSpecRL == InitLiveRL /\ [][NextRL]_vars /\ FairRL

-----------------------------------------------------------------------------
(* FigmaClient: the limiters and request() *)

Clients == {"c1", "c2"}
Tiers == {"tier1", "tier2"}

\* private tier1Limiter = new RateLimiter(20)
Tier1Rate == 20
\* private tier2Limiter = new RateLimiter(100)
Tier2Rate == 100

RateOf(tier) == IF tier = "tier1" THEN Tier1Rate ELSE Tier2Rate

\* a plausible slip: the limiters as module-level singletons, one per tier
\* for all clients
LimiterOfShared(c, tier) == <<"c1", tier>>

\* a plausible slip: every request goes through the tier-1 limiter
LimiterOfTier1(c, tier) == <<c, "tier1">>

\* lines 171-172: the limiters are fields of the client instance
LimiterOf(c, tier) == <<c, tier>>

\* JSON null and JSON strings; `if (x)` is false for null and for ''
JsNull == [null |-> TRUE, str |-> ""]
JsString(str) == [null |-> FALSE, str |-> str]
Truthy(v) == ~v.null /\ v.str # ""

\* the responses of fetch(): a non-success status with its body text, a
\* success with its JSON body, or no response at all (fetch rejects)
HttpError(status, text) == [ok |-> FALSE, status |-> status, text |-> text, failed |-> FALSE]
HttpOk(json) == [ok |-> TRUE, json |-> json, failed |-> FALSE]
FetchFailed == [ok |-> FALSE, failed |-> TRUE]

\* a response without its body on success (kept as history with the task)
StatusLine(resp) == IF resp.ok THEN [ok |-> TRUE, failed |-> FALSE] ELSE resp

\* line 196: new Error(`Figma API error (${response.status}): ${text}`)
ApiError(status, text) == [kind |-> "FigmaApiError", status |-> status, text |-> text]
\* fetch() rejected: the TypeError of fetch passes through request() unchanged
NetworkError == [kind |-> "FetchTypeError"]

\* lines 187-200: the thunk request() passes to schedule() settles
RequestOutcome(resp) ==
  IF resp.failed THEN Rejected(NetworkError)
  ELSE IF ~resp.ok THEN Rejected(ApiError(resp.status, resp.text))
  ELSE Resolved(resp.json)

\* lines 183-201: the thunk of request(endpoint, limiter), with (history) the
\* client and tier it was made for, the node ids asked for and the
\* exportAllFrames run that made it (0: a direct call of the API method)
RequestThunk(c, tier, endpoint, ids, r) ==
  [kind |-> "request", client |-> c, tier |-> tier, endpoint |-> endpoint,
   ids |-> ids, run |-> r]

\* lines 183-201: request() schedules the thunk on the limiter it is given
Request(c, tier, endpoint, ids, r) ==
  DoSchedule(LimiterOf(c, tier), RequestThunk(c, tier, endpoint, ids, r))

-----------------------------------------------------------------------------
(* The remote document and findFrames.  A string that the program builds   *)
(* or takes apart is a sequence of pieces: a node id is the sequence of its *)
(* characters, a path the sequence of names and separators.                *)

\* absoluteBoundingBox is optional
NoBox == [absent |-> TRUE]
Box(x, y, w, h) == [x |-> x, y |-> y, width |-> w, height |-> h]

\* FigmaNodeSchema; an absent children array is the empty one
Node(id, name, type, box, children) ==
  [id |-> id, name |-> name, type |-> type, absoluteBoundingBox |-> box,
   children |-> children]

\* imageUrl: '' and localPath: undefined
EmptyUrl == <<>>
NoPath == <<>>

\* a plausible slip: the names are concatenated without the separator
JoinNoSeparator(parts, sep) == parts

\* Array.prototype.join
RECURSIVE Join(_, _)
Join(parts, sep) ==
  IF Len(parts) = 0 THEN <<>>
  ELSE IF Len(parts) = 1 THEN <<parts[1]>>
  ELSE <<parts[1], sep>> \o Join(Tail(parts), sep)

\* a plausible slip: the type of the node is not tested
ExportableAnyType(node) == node.absoluteBoundingBox # NoBox

\* lines 273-276: the node is collected
Exportable(node) ==
  /\ node.type \in {"FRAME", "COMPONENT"}
  /\ node.absoluteBoundingBox # NoBox

\* lines 277-285
ExportedFrame(node, currentPath) ==
  [nodeId      |-> node.id,
   name        |-> node.name,
   path        |-> Join(currentPath, " / "),
   imageUrl    |-> EmptyUrl,
   localPath   |-> NoPath,
   width       |-> node.absoluteBoundingBox.width,
   height      |-> node.absoluteBoundingBox.height,
   boundingBox |-> node.absoluteBoundingBox]

\* a plausible slip: the node is pushed after its children were searched
RECURSIVE findFramesChildrenFirst(_, _)
findFramesChildrenFirst(node, path) ==
  LET currentPath == Append(path, node.name)
      own == IF Exportable(node)
               THEN <<ExportedFrame(node, currentPath)>>
               ELSE <<>>
      RECURSIVE below(_)
      below(i) ==
        IF i > Len(node.children) THEN <<>>
        ELSE findFramesChildrenFirst(node.children[i], currentPath) \o below(i + 1)
  IN  below(1) \o own

\* a plausible slip: a frame or component without bounding box is skipped
\* together with everything below it
RECURSIVE findFramesSkipSubtree(_, _)
findFramesSkipSubtree(node, path) ==
  LET currentPath == Append(path, node.name)
      RECURSIVE below(_)
      below(i) ==
        IF i > Len(node.children) THEN <<>>
        ELSE findFramesSkipSubtree(node.children[i], currentPath) \o below(i + 1)
  IN  IF node.type \in {"FRAME", "COMPONENT"} /\ node.absoluteBoundingBox = NoBox
        THEN <<>>
        ELSE (IF Exportable(node)
                THEN <<ExportedFrame(node, currentPath)>>
                ELSE <<>>) \o below(1)

\* lines 268-296
RECURSIVE findFrames(_, _)
findFrames(node, path) ==
  LET currentPath == Append(path, node.name)
      own == IF Exportable(node)
               THEN <<ExportedFrame(node, currentPath)>>
               ELSE <<>>
      \* the frames of children lo..hi, in order
      RECURSIVE below(_, _)
      below(lo, hi) ==
        IF lo > hi THEN <<>>
        ELSE IF lo = hi THEN findFrames(node.children[lo], currentPath)
        ELSE below(lo, (lo + hi) \div 2) \o below(((lo + hi) \div 2) + 1, hi)
  IN  own \o below(1, Len(node.children))

\* the decimal digits of n, as characters
RECURSIVE Decimal(_)
Decimal(n) ==
  LET d == <<"0", "1", "2", "3", "4", "5", "6", "7", "8", "9">>
  IN  IF n < 10 THEN <<d[n + 1]>> ELSE Append(Decimal(n \div 10), d[(n % 10) + 1])

\* a document like the one of the tests: a page with a frame that holds a
\* component and a text, and a frame without a bounding box that holds a
\* frame
SmallDoc ==
  Node(<<"0", ":", "0">>, "Document", "DOCUMENT", NoBox, <<
    Node(<<"0", ":", "1">>, "Page1", "CANVAS", NoBox, <<
      Node(<<"1", ":", "1">>, "Hero", "FRAME", Box(0, 0, 1440, 800), <<
        Node(<<"1", ":", "2">>, "Button", "COMPONENT", Box(10, 10, 100, 40), <<>>),
        Node(<<"1", ":", "3">>, "Title", "TEXT", Box(10, 60, 300, 40), <<>>) >>),
      Node(<<"1", ":", "4">>, "Ghost", "FRAME", NoBox, <<
        Node(<<"1", ":", "5">>, "Inner", "FRAME", Box(0, 900, 200, 100), <<>>) >>) >>) >>)

\* a document without any frame or component: a page that holds a text
BareDoc ==
  Node(<<"0", ":", "0">>, "Document", "DOCUMENT", NoBox, <<
    Node(<<"0", ":", "1">>, "Page1", "CANVAS", NoBox, <<
      Node(<<"3", ":", "1">>, "Note", "TEXT", Box(0, 0, 50, 20), <<>>) >>) >>)

\* a page with two frames whose ids differ only in the separator
TwinDoc ==
  Node(<<"0", ":", "0">>, "Document", "DOCUMENT", NoBox, <<
    Node(<<"0", ":", "1">>, "Page1", "CANVAS", NoBox, <<
      Node(<<"4", ":", "1">>, "Card", "FRAME", Box(0, 0, 300, 200), <<>>),
      Node(<<"4", "-", "1">>, "Badge", "FRAME", Box(0, 300, 60, 20), <<>>) >>) >>)

\* a page of n frames
WideDoc(n) ==
  Node(<<"0", ":", "0">>, "Document", "DOCUMENT", NoBox, <<
    Node(<<"0", ":", "1">>, "Page1", "CANVAS", NoBox,
      [k \in 1..n |->
         Node(<<"2", ":">> \o Decimal(k), "Frame", "FRAME", Box(0, k, 100, 100), <<>>)]) >>)

-----------------------------------------------------------------------------
(* The provider: what the Figma API and the image host can answer *)

\* line 324: const batchSize = 100
BatchSize == 100
\* line 308: maxFrames = 100
DefaultMaxFrames == 100

\* the documents GET /files/{key} can return
Documents == {SmallDoc, WideDoc(BatchSize + 1), BareDoc, TwinDoc}

\* non-success answers of the API
ApiFailures == {HttpError(403, "Forbidden"), HttpError(429, "Rate limit exceeded")}

\* the elements of a sequence
Range(seq) == {seq[i] : i \in 1..Len(seq)}

\* the pre-signed URL the provider renders node id at
Url(id) == <<"https://figma-images/">> \o id

\* FigmaImageResponseSchema: {err, images} with the URLs of the nodes in S
ImagesJson(err, S) == [kind |-> "images", err |-> err, images |-> [id \in S |-> Url(id)]]

\* the nodes of a request the server renders: the first MaxRendered of them
\* (the images of the others are absent from the response)
Rendered(ids) == {ids[j] : j \in 1..(IF Len(ids) < MaxRendered THEN Len(ids) ELSE MaxRendered)}

\* the answers to GET /images/{key}?ids=...: every node rendered, the first
\* one missing, err set, err set to the empty string
ImageReplies(ids) ==
  { HttpOk(ImagesJson(JsNull, Rendered(ids))),
    HttpOk(ImagesJson(JsNull, Rendered(ids) \ {ids[1]})),
    HttpOk(ImagesJson(JsString("Render timeout"), {})),
    HttpOk(ImagesJson(JsString(""), Rendered(ids))) }
    \cup ApiFailures \cup {FetchFailed}

FileReplies ==
  {HttpOk([kind |-> "file", document |-> d]) : d \in Documents}
    \cup ApiFailures \cup {FetchFailed}

\* what the server can answer to the request of thunk fn
Replies(fn) == IF fn.endpoint = "files" THEN FileReplies ELSE ImageReplies(fn.ids)

\* the bytes the image host serves at url
Body(url) == [kind |-> "png", of |-> url]

\* the answers to GET url
DownloadReplies(url) == {HttpOk(Body(url)), HttpError(404, "Not Found"), FetchFailed}

\* lines 187-200: the response arrives and the thunk of request() settles
RequestSettles ==
  \E t \in {x \in 1..Len(task) : task[x].state = "running"} :
    \E resp \in Replies(task[t].fn) :
      FnSettle(t, RequestOutcome(resp), StatusLine(resp))

-----------------------------------------------------------------------------
(* Two clients whose API methods are called directly *)

InitTiers ==
  /\ clock = StartClock
  /\ ticks = 0
  /\ limiter = [l \in Clients \X Tiers |-> NewRateLimiter(RateOf(l[2]))]
  /\ task = <<>>
  /\ log = <<>>
  /\ run = <<>>
  /\ fs = NoCache

\* lines 206-212: getFile(fileKey) up to its await
GetFile(c) ==
  /\ Len(task) < MaxApiCalls
  /\ Request(c, "tier2", "files", <<>>, 0)
  /\ UNCHANGED <<clock, ticks, run, fs>>

\* lines 237-251: exportImages(fileKey, nodeIds) up to its await
ExportImages(c, ids) ==
  /\ Len(task) < MaxApiCalls
  /\ Request(c, "tier1", "images", ids, 0)
  /\ UNCHANGED <<clock, ticks, run, fs>>

ApiCalls ==
  \E c \in Clients :
    \/ GetFile(c)
    \/ ExportImages(c, <<SmallDoc.children[1].children[1].id>>)

\* the answers this specification lets the API give: the small document or
\* every image, or 403
PlainReplies(fn) ==
  { IF fn.endpoint = "files"
      THEN HttpOk([kind |-> "file", document |-> SmallDoc])
      ELSE HttpOk(ImagesJson(JsNull, Range(fn.ids))),
    HttpError(403, "Forbidden") }

\* lines 187-200: the response arrives and the thunk of request() settles
ApiAnswers ==
  \E t \in 1..Len(task) : \E resp \in PlainReplies(task[t].fn) :
    FnSettle(t, RequestOutcome(resp), StatusLine(resp))

NextTiers == ApiCalls \/ ApiAnswers \/ LoopResumes \/ TimerFires \/ TimePasses

SpecTiers == InitTiers /\ [][NextTiers]_vars

-----------------------------------------------------------------------------
(* exportAllFrames *)

\* the options exportAllFrames is called with
ExportOptions ==
  { [maxFrames |-> DefaultMaxFrames, downloadImages |-> TRUE],
    [maxFrames |-> 2, downloadImages |-> TRUE],
    [maxFrames |-> 2 * BatchSize, downloadImages |-> TRUE],
    [maxFrames |-> 2 * BatchSize, downloadImages |-> FALSE] }

\* the calls of exportAllFrames one behaviour makes
RunSlots == {1}

\* a plausible slip: the end index of slice taken as inclusive
SliceInclusive(seq, from, to) ==
  SubSeq(seq, from + 1, IF to + 1 < Len(seq) THEN to + 1 ELSE Len(seq))

\* Array.prototype.slice(from, to) for 0 <= from <= to
Slice(seq, from, to) ==
  SubSeq(seq, from + 1, IF to < Len(seq) THEN to ELSE Len(seq))

\* the locals of one exportAllFrames call: the client, the options, where it
\* is suspended (pc) and on which schedule() call (wait), frames, the loop
\* variable i, the index k of the frame being downloaded and the buffer read
\* from the response; outcome is the promise exportAllFrames returned;
\* fetched and wrote are history: the frames a GET was issued for and the
\* cache keys written
NewRun(c, opts, wait) ==
  [client |-> c, opts |-> opts, pc |-> "file", wait |-> wait, frames |-> <<>>,
   i |-> 0, k |-> 0, buf |-> [kind |-> "none"], outcome |-> Pending,
   fetched |-> <<>>, wrote |-> <<>>]

\* lines 301-311: exportAllFrames(fileKey, options) up to the await of
\* getFile, whose request() has scheduled the thunk on the tier-2 limiter
ExportAllFrames(c, opts) ==
  /\ Request(c, "tier2", "files", <<>>, Len(run) + 1)
  /\ run' = Append(run, NewRun(c, opts, Len(task) + 1))
  /\ UNCHANGED <<clock, ticks, fs>>

\* an await of the run throws: exportAllFrames has no try/catch, its promise
\* rejects with the error
Thrown(R, e) == [R EXCEPT !.pc = "failed", !.outcome = Rejected(e)]

\* line 352: return frames
Returned(R) == [R EXCEPT !.pc = "done", !.outcome = Resolved([kind |-> "frames"])]

\* lines 325-337: the for loop at its test with the locals R: the next batch
\* is requested through the tier-1 limiter, or the batches are done and the
\* downloads begin with ensureCacheDir, or the frames are returned
BatchLoop(r, R) ==
  IF R.i < Len(R.frames)
    THEN LET batch == Slice(R.frames, R.i, R.i + BatchSize)
             nodeIds == [j \in 1..Len(batch) |-> batch[j].nodeId]
         IN  /\ Request(R.client, "tier1", "images", nodeIds, r)
             /\ run' = [run EXCEPT ![r] = [R EXCEPT !.pc = "export",
                                                    !.wait = Len(task) + 1]]
             /\ UNCHANGED fs
    ELSE /\ run' = [run EXCEPT ![r] =
                      IF R.opts.downloadImages
                        THEN [R EXCEPT !.pc = "access-dir"]
                        ELSE Returned(R)]
         /\ UNCHANGED <<limiter, task, log, fs>>

\* a plausible slip: slice(maxFrames) for slice(0, maxFrames)
TruncatedTail(found, maxFrames) ==
  IF Len(found) > maxFrames THEN SubSeq(found, maxFrames + 1, Len(found)) ELSE found

\* lines 316-319
Truncated(found, maxFrames) ==
  IF Len(found) > maxFrames THEN Slice(found, 0, maxFrames) ELSE found

\* lines 311-329: getFile settled; the frames are found and cut to maxFrames
\* and the batch loop begins
AfterGetFile(r) ==
  /\ r \in 1..Len(run)
  /\ run[r].pc = "file"
  /\ task[run[r].wait].future.st # "pending"
  /\ LET f == task[run[r].wait].future
     IN  IF f.st = "rejected"
           THEN /\ run' = [run EXCEPT ![r] = Thrown(run[r], f.val)]
                /\ UNCHANGED <<limiter, task, log, fs>>
           ELSE BatchLoop(r, [run[r] EXCEPT
                  !.frames = Truncated(findFrames(f.val.document, <<>>),
                                       run[r].opts.maxFrames),
                  !.i = 0])
  /\ UNCHANGED <<clock, ticks>>

\* line 255: new Error(`Figma image export error: ${parsed.err}`)
ImageExportError(err) == [kind |-> "ImageExportError", err |-> err.str]

\* a plausible slip: the URLs are taken from the response without regard to
\* the node they were rendered for
UrlOfAny(images, id) ==
  IF DOMAIN images # {} THEN images[CHOOSE x \in DOMAIN images : TRUE] ELSE EmptyUrl

\* line 332: images[frame.nodeId] || ''
UrlOrEmpty(images, id) ==
  IF id \in DOMAIN images /\ images[id] # EmptyUrl THEN images[id] ELSE EmptyUrl

\* a plausible slip: a failed batch is skipped and the loop goes on
BatchFailedSkip(r, e) ==
  BatchLoop(r, [run[r] EXCEPT !.i = @ + BatchSize])

\* lines 329 and 248-256: the await of exportImages throws e
BatchFailed(r, e) ==
  /\ run' = [run EXCEPT ![r] = Thrown(run[r], e)]
  /\ UNCHANGED <<limiter, task, log, fs>>

\* lines 253-258 and 329-334: the request of a batch settled; exportImages
\* throws on err, else the URLs are merged into the batch and the loop goes on
AfterExport(r) ==
  /\ r \in 1..Len(run)
  /\ run[r].pc = "export"
  /\ task[run[r].wait].future.st # "pending"
  /\ LET f == task[run[r].wait].future
         R == run[r]
     IN  IF f.st = "rejected"
           THEN BatchFailed(r, f.val)
         ELSE IF Truthy(f.val.err)
           THEN BatchFailed(r, ImageExportError(f.val.err))
         ELSE BatchLoop(r, [R EXCEPT
                !.frames = [j \in 1..Len(R.frames) |->
                              IF R.i < j /\ j <= R.i + BatchSize
                                THEN [R.frames[j] EXCEPT !.imageUrl =
                                        UrlOrEmpty(f.val.images, R.frames[j].nodeId)]
                                ELSE R.frames[j]],
                !.i = R.i + BatchSize])
  /\ UNCHANGED <<clock, ticks>>

-----------------------------------------------------------------------------
(* The cache and the download loop *)

\* the characters [a-zA-Z0-9]
Alphanumeric ==
  { "0", "1", "2", "3", "4", "5", "6", "7", "8", "9",
    "a", "b", "c", "d", "e", "f", "g", "h", "i", "j", "k", "l", "m",
    "n", "o", "p", "q", "r", "s", "t", "u", "v", "w", "x", "y", "z",
    "A", "B", "C", "D", "E", "F", "G", "H", "I", "J", "K", "L", "M",
    "N", "O", "P", "Q", "R", "S", "T", "U", "V", "W", "X", "Y", "Z" }

\* line 412: nodeId.replace(/[^a-zA-Z0-9]/g, '_')
CacheKey(nodeId) ==
  [j \in 1..Len(nodeId) |-> IF nodeId[j] \in Alphanumeric THEN nodeId[j] ELSE "_"]

\* line 413: join(this.cacheDir, `${cacheKey}.png`)
CachePath(key) == <<"cacheDir", "/">> \o key \o <<".png">>

\* line 426: new Error(`Failed to download image: ${response.status}`)
DownloadError(status) == [kind |-> "DownloadError", status |-> status]

\* writeFile() into a directory that does not exist
NoEntError == [kind |-> "ENOENT"]

\* a plausible slip: `if (frame.imageUrl)` is left out
NextFrame(frames, k) == IF k <= Len(frames) THEN k ELSE 0

\* the smallest index from k on of a frame with an image URL (0: none)
NextWithUrl(frames, k) ==
  LET S == {j \in k..Len(frames) : frames[j].imageUrl # EmptyUrl}
  IN  IF S = {} THEN 0 ELSE CHOOSE j \in S : \A j2 \in S : j <= j2

\* lines 340-352: the for loop over frames from index k on: frames without
\* an image URL are passed over; downloadAndCacheImage is called for the
\* next one and suspends in access(cachePath), or the frames are returned
DownloadLoop(R, k) ==
  LET j == NextWithUrl(R.frames, k)
  IN  IF j = 0 THEN Returned(R) ELSE [R EXCEPT !.pc = "access-file", !.k = j]

\* lines 395-398: access(this.cacheDir) settled
EnsureAccess(r) ==
  /\ r \in 1..Len(run)
  /\ run[r].pc = "access-dir"
  /\ run' = [run EXCEPT ![r] =
               IF fs.dir THEN DownloadLoop(run[r], 1) ELSE [run[r] EXCEPT !.pc = "mkdir"]]
  /\ UNCHANGED <<clock, ticks, limiter, task, log, fs>>

\* line 399: mkdir(this.cacheDir, { recursive: true }) settled
EnsureMkdir(r) ==
  /\ r \in 1..Len(run)
  /\ run[r].pc = "mkdir"
  /\ fs' = [fs EXCEPT !.dir = TRUE]
  /\ run' = [run EXCEPT ![r] = DownloadLoop(run[r], 1)]
  /\ UNCHANGED <<clock, ticks, limiter, task, log>>

\* a plausible slip: the cache is not consulted
CachedNever(key) == FALSE

\* lines 415-416: access(cachePath) succeeds: the file exists
Cached(key) == fs.dir /\ key \in DOMAIN fs.files

\* lines 415-424: access(cachePath) settled: a hit returns the path, which
\* line 346 stores; a miss calls fetch(url)
CacheLookup(r) ==
  /\ r \in 1..Len(run)
  /\ run[r].pc = "access-file"
  /\ LET R == run[r]
         key == CacheKey(R.frames[R.k].nodeId)
     IN  run' = [run EXCEPT ![r] =
           IF Cached(key)
             THEN DownloadLoop([R EXCEPT !.frames[R.k].localPath = CachePath(key)],
                               R.k + 1)
             ELSE [R EXCEPT !.pc = "fetch", !.fetched = Append(@, R.k)]]
  /\ UNCHANGED <<clock, ticks, limiter, task, log, fs>>

\* lines 342-345 and 424-427: the await of downloadAndCacheImage throws e
DownloadFailed(R, e) == Thrown(R, e)

\* a plausible slip: response.ok is not tested, whatever body came is kept
DownloadedUnchecked(r, resp) ==
  /\ r \in 1..Len(run)
  /\ run[r].pc = "fetch"
  /\ run' = [run EXCEPT ![r] =
               IF resp.failed THEN DownloadFailed(run[r], NetworkError)
               ELSE [run[r] EXCEPT !.pc = "write",
                                   !.buf = IF resp.ok THEN resp.json
                                           ELSE [kind |-> "text", of |-> <<resp.text>>]]]
  /\ UNCHANGED <<clock, ticks, limiter, task, log, fs>>

\* lines 424-429: the response of fetch(url) arrived
Downloaded(r, resp) ==
  /\ r \in 1..Len(run)
  /\ run[r].pc = "fetch"
  /\ run' = [run EXCEPT ![r] =
               IF resp.failed THEN DownloadFailed(run[r], NetworkError)
               ELSE IF ~resp.ok THEN DownloadFailed(run[r], DownloadError(resp.status))
               ELSE [run[r] EXCEPT !.pc = "write", !.buf = resp.json]]
  /\ UNCHANGED <<clock, ticks, limiter, task, log, fs>>

\* a plausible slip: a file that exists is left as it is (flag 'wx' with
\* the error ignored), the first writer wins
CacheWriteIfAbsent(r) ==
  /\ r \in 1..Len(run)
  /\ run[r].pc = "write"
  /\ LET R == run[r]
         key == CacheKey(R.frames[R.k].nodeId)
     IN  IF fs.dir
           THEN /\ fs' = [fs EXCEPT !.files =
                            [x \in DOMAIN fs.files \cup {key} |->
                               IF x \in DOMAIN fs.files THEN fs.files[x] ELSE R.buf]]
                /\ run' = [run EXCEPT ![r] =
                     DownloadLoop([R EXCEPT !.frames[R.k].localPath = CachePath(key),
                                            !.wrote = Append(@, key),
                                            !.buf = [kind |-> "none"]],
                                  R.k + 1)]
           ELSE /\ run' = [run EXCEPT ![r] = Thrown(R, NoEntError)]
                /\ UNCHANGED fs
  /\ UNCHANGED <<clock, ticks, limiter, task, log>>

\* lines 430-432 and 346: writeFile(cachePath, buffer) settled
CacheWrite(r) ==
  /\ r \in 1..Len(run)
  /\ run[r].pc = "write"
  /\ LET R == run[r]
         key == CacheKey(R.frames[R.k].nodeId)
     IN  IF fs.dir
           THEN /\ fs' = [fs EXCEPT !.files =
                            [x \in DOMAIN fs.files \cup {key} |->
                               IF x = key THEN R.buf ELSE fs.files[x]]]
                /\ run' = [run EXCEPT ![r] =
                     DownloadLoop([R EXCEPT !.frames[R.k].localPath = CachePath(key),
                                            !.wrote = Append(@, key),
                                            !.buf = [kind |-> "none"]],
                                  R.k + 1)]
           ELSE /\ run' = [run EXCEPT ![r] = Thrown(R, NoEntError)]
                /\ UNCHANGED fs
  /\ UNCHANGED <<clock, ticks, limiter, task, log>>

-----------------------------------------------------------------------------
(* One client and one call of exportAllFrames *)

\* a cache directory that holds the image of the first frame of SmallDoc
HeroCached ==
  [dir |-> TRUE,
   files |-> [x \in {CacheKey(SmallDoc.children[1].children[1].id)} |->
                [kind |-> "png", of |-> <<"old">>]]]

InitExport ==
  /\ clock = StartClock
  /\ ticks = 0
  /\ limiter = [l \in {"c1"} \X Tiers |-> NewRateLimiter(RateOf(l[2]))]
  /\ task = <<>>
  /\ log = <<>>
  /\ run = <<>>
  /\ fs \in {NoCache, HeroCached}

ExportCalls ==
  /\ Len(run) < Cardinality(RunSlots)
  /\ \E opts \in ExportOptions : ExportAllFrames("c1", opts)

RunResumes ==
  \E r \in RunSlots :
    \/ AfterGetFile(r)
    \/ AfterExport(r)
    \/ EnsureAccess(r)
    \/ EnsureMkdir(r)
    \/ CacheLookup(r)
    \/ CacheWrite(r)

Downloads ==
  \E r \in {x \in 1..Len(run) : run[x].pc = "fetch"} :
    \E resp \in DownloadReplies(run[r].frames[run[r].k].imageUrl) : Downloaded(r, resp)

\* time passes while the call is in progress: by the interval of the tier-1
\* limiter, or up to the next timer
ExportTimePasses ==
  \/ ticks < MaxExportTicks /\ Tick(MinDelayOf(Tier1Rate))
  \/ TimerDue

NextExport ==
  \/ ExportCalls
  \/ RequestSettles
  \/ RunResumes
  \/ Downloads
  \/ LoopResumes
  \/ TimerFires
  \/ ExportTimePasses

SpecExport == InitExport /\ [][NextExport]_vars

-----------------------------------------------------------------------------
(* Properties of one RateLimiter *)

\* the dispatches of limiter l, in order
DispatchesOf(l) == SelectSeq(log, LAMBDA e : e.lim = l)

\* the tasks of limiter l
TasksOf(l) == {t \in 1..Len(task) : task[t].lim = l}

\* C1: in one limiter built with requestsPerMinute = R the start times of two
\* consecutive dispatches differ by at least ceil(60000/R) ms, that is by a
\* whole number g of ms with g * R >= 60000
C1_MinimumGap ==
  \A l \in DOMAIN limiter :
    LET D == DispatchesOf(l)
    IN  \A i \in 1..(Len(D) - 1) :
          (D[i + 1].at - D[i].at) * limiter[l].rpm >= 60000

\* C1 witness: a limiter of 70 requests per minute made three dispatches, the
\* second exactly ceil(60000/70) = 858 ms after the first (the loop slept
\* while a task was in flight or queued), the third from a new drain started
\* by schedule() after the limiter had gone idle
C1_Witness ==
  \E l \in DOMAIN limiter :
    LET D == DispatchesOf(l)
    IN  /\ limiter[l].rpm = 70
        /\ Len(D) = 3
        /\ D[2].at - D[1].at = 858
        /\ D[2].by = "timer"
        /\ D[3].by = "schedule"

\* C2: tasks are dispatched in the order of their schedule() calls: the
\* dispatches of a limiter are in call order, and a task is not dispatched
\* while one called before it is still queued
C2_Fifo ==
  \A l \in DOMAIN limiter :
    LET D == DispatchesOf(l)
    IN  /\ \A i \in 1..(Len(D) - 1) : D[i].task < D[i + 1].task
        /\ \A t \in TasksOf(l) : \A u \in TasksOf(l) :
             (t < u /\ task[u].state # "queued") => task[t].state # "queued"

\* C2 witness: tasks 2 and 3 were both called before task 2 was dispatched
\* (they waited in the queue together) and were dispatched 2 first, then 3
C2_Witness ==
  /\ Len(log) = 3
  /\ log[2].task = 2
  /\ log[3].task = 3
  /\ task[3].seen <= 1
  /\ task[2].lim = task[3].lim

\* C3: every task passed to schedule() is eventually dispatched, provided
\* every dispatched task eventually settles
C3_NoTaskLost ==
  (\A j \in 1..MaxTasks : []<>(~(Len(task) >= j /\ task[j].state = "running")))
    => (\A t \in 1..MaxTasks :
          (Len(task) >= t) ~> (Len(task) >= t /\ task[t].state # "queued"))

\* C3 witness: task 2 was called while the loop still awaited task 1, the
\* queue already emptied by the shift, and task 1 has settled since: the loop
\* is about to finish and finds task 2
C3_Witness ==
  /\ Len(task) >= 2
  /\ task[1].state = "done"
  /\ task[2].state = "queued"
  /\ limiter[task[2].lim].queue = <<2>>
  /\ limiter[task[2].lim].loops = {Awaiting(1)}
  /\ limiter[task[2].lim].processing

\* C4: a limiter runs one task at a time: at most one of its tasks is started
\* and not yet settled
C4_OneAtATime ==
  \A l \in DOMAIN limiter :
    Cardinality({t \in TasksOf(l) : task[t].state = "running"}) <= 1

\* C4 witness: a task is in flight, the next is queued behind it, and the
\* minimum interval since the last dispatch has long passed
C4_Witness ==
  \E l \in DOMAIN limiter :
    /\ \E t \in TasksOf(l) : task[t].state = "running"
    /\ Len(limiter[l].queue) > 0
    /\ clock - limiter[l].lastRequestTime > limiter[l].minDelay

\* C5: a task that rejects fails only its own caller's future and leaves the
\* drain loop working: a rejected future belongs to a task whose own fn
\* rejected, and after a rejection a queued task still has a drain loop
\* (an activation of processQueue, with the latch set) to dispatch it
C5_FailureIsolated ==
  /\ \A t \in 1..Len(task) :
       task[t].future.st = "rejected" => task[t].result = task[t].future
  /\ \A t \in 1..Len(task) : \A u \in 1..Len(task) :
       (/\ task[t].result.st = "rejected"
        /\ task[u].lim = task[t].lim
        /\ task[u].state = "queued")
         => /\ limiter[task[u].lim].processing
            /\ limiter[task[u].lim].loops # {}

\* C5 witness: task 1 rejected; task 2, called while the drain that ran
\* task 1 was in progress, was dispatched after it and resolved
C5_Witness ==
  /\ Len(task) >= 2
  /\ task[1].future.st = "rejected"
  /\ task[2].lim = task[1].lim
  /\ task[2].future.st = "resolved"
  /\ ~task[2].entered

\* C6: the future schedule(task) returned settles with that task's own
\* outcome: it is pending until the task's fn has settled and from then on
\* equals what fn settled with
C6_OwnOutcome ==
  \A t \in 1..Len(task) :
    /\ task[t].state = "done" => task[t].future = task[t].result
    /\ task[t].state # "done" => task[t].future = Pending

\* C6 witness: two tasks of one limiter settled differently, one rejected
\* with its error and one resolved with its value, a third is still queued
C6_Witness ==
  /\ Len(task) = 3
  /\ task[1].future = Rejected(ThunkError(1))
  /\ task[2].future = Resolved(ThunkValue(2))
  /\ task[3].future = Pending

\* C7 as stated: schedule(task) never starts the task inside the schedule
\* call, so no dispatch is made by the run of the loop that schedule() began
C7_NeverSynchronous ==
  \A i \in 1..Len(log) : log[i].by # "schedule"

\* C7 amended: schedule(task) leaves the new task queued unless the limiter
\* is idle (no drain in progress) and at least minDelay ms have passed since
\* its last dispatch; exactly then the drain loop it begins calls the task
\* inside the schedule call
C7_SynchronousOnlyWhenIdleAndDue ==
  [][ Len(task') > Len(task) =>
        LET t == Len(task')
            L == limiter[task'[t].lim]
        IN  /\ task'[t].state \in {"queued", "running"}
            /\ task'[t].state = "running"
                 <=> (~L.processing /\ clock - L.lastRequestTime >= L.minDelay)
            /\ task'[t].state = "queued" => t \in
                 {limiter'[task'[t].lim].queue[i] :
                    i \in 1..Len(limiter'[task'[t].lim].queue)} ]_vars

\* C7 witness: one limiter has dispatched a task inside schedule() (idle and
\* due), left one queued because the interval had not passed, and left one
\* queued because a drain was in progress
C7_Witness ==
  /\ Len(task) = 3
  /\ Len(log) >= 1
  /\ log[1].by = "schedule"
  /\ task[1].state = "done"
  /\ task[2].state = "queued"
  /\ task[2].entered
  /\ task[3].state = "queued"
  /\ ~task[3].entered

-----------------------------------------------------------------------------
(* Properties of the limiters of FigmaClient *)

\* the tasks limiter l holds: queued, or awaited by a run of its loop
HeldBy(l) ==
  Range(limiter[l].queue) \cup {a.cur : a \in {b \in limiter[l].loops : b.pc = "task"}}

\* every limiter holds only thunks made for its own client and tier, and
\* what a run of its loop waits for is its own: a task it dispatched itself
\* or a timer set from its own last dispatch and interval
C8_OwnState ==
  \A l \in DOMAIN limiter :
    /\ \A t \in HeldBy(l) :
         /\ task[t].lim = l
         /\ task[t].fn.client = l[1]
         /\ task[t].fn.tier = l[2]
    /\ limiter[l].queue # <<>> => limiter[l].loops # {}
    /\ \A a \in limiter[l].loops :
         a.pc = "sleep" => a.wake <= limiter[l].lastRequestTime + limiter[l].minDelay
    /\ \A i \in 1..Len(log) :
         log[i].lim = l =>
           /\ task[log[i].task].fn.client = l[1]
           /\ task[log[i].task].fn.tier = l[2]

\* a step changes at most one limiter, and a call made on client c for a
\* tier changes none but the limiter of c for that tier
C8_Frame ==
  /\ \A l1, l2 \in DOMAIN limiter :
       (limiter'[l1] # limiter[l1] /\ l1 # l2) => limiter'[l2] = limiter[l2]
  /\ Len(task') > Len(task) =>
       \A l \in DOMAIN limiter :
         l # <<task'[Len(task')].fn.client, task'[Len(task')].fn.tier>>
           => limiter'[l] = limiter[l]
  /\ \A i \in 1..Len(log') :
       i > Len(log) =>
         \A l \in DOMAIN limiter :
           l # <<task'[log'[i].task].fn.client, task'[log'[i].task].fn.tier>>
             => limiter'[l] = limiter[l]

\* C8: limiter instances never interact: the tier-1 and tier-2 limiters of
\* one client and the limiters of different clients share no state; what a
\* limiter holds and waits for is its own, and an operation on one limiter
\* leaves every other limiter's queue, processing flag and last-dispatch
\* time unchanged
C8_LimitersNeverInteract == [](C8_OwnState) /\ [][C8_Frame]_vars

\* C8 witness: a request is in flight in one limiter and never settled,
\* while a request made later on another limiter (the other tier or another
\* client) was dispatched at the same instant and has settled
C8_Witness ==
  /\ Len(task) = 2
  /\ Len(log) = 2
  /\ task[1].state = "running"
  /\ task[2].state = "done"
  /\ task[1].lim # task[2].lim
  /\ log[1].task = 1
  /\ log[2].task = 2
  /\ log[1].at = log[2].at

-----------------------------------------------------------------------------
(* Properties of exportAllFrames *)

\* the request that run r awaited last has failed: its promise rejected, or
\* the export response carries a truthy err
RequestFailed(r) ==
  LET t == run[r].wait
  IN  \/ task[t].future.st = "rejected"
      \/ /\ task[t].future.st = "resolved"
         /\ task[t].fn.endpoint = "images"
         /\ Truthy(task[t].future.val.err)

\* run r ended because the request it awaited failed
FailedOnRequest(r) ==
  /\ run[r].pc = "failed"
  /\ run[r].fetched = <<>>
  /\ RequestFailed(r)

\* C9 as stated: a non-success HTTP status for one image is not fatal to
\* exportAllFrames: the call never rejects with the download's error
C9_DownloadFailureNotFatal ==
  \A r \in 1..Len(run) :
    run[r].outcome.st = "rejected" => run[r].outcome.val.kind # "DownloadError"

\* C10 as stated: a call that failed on the file fetch or on an export batch
\* rejects with an error carrying the provider's status code and message
C10_CarriesStatusAndMessage ==
  \A r \in 1..Len(run) :
    FailedOnRequest(r) =>
      LET t == run[r].wait
      IN  /\ run[r].outcome.val.kind = "FigmaApiError"
          /\ run[r].outcome.val.status = task[t].resp.status
          /\ run[r].outcome.val.text = task[t].resp.text

\* the error exportAllFrames must reject with when the request t failed
ErrorOf(t) ==
  LET resp == task[t].resp
  IN  IF resp.failed THEN NetworkError
      ELSE IF ~resp.ok THEN ApiError(resp.status, resp.text)
      ELSE ImageExportError(task[t].future.val.err)

\* a failed request ends the run it belongs to, with the error of the
\* request, before any image is downloaded or written
C10_Fatal ==
  \A r \in 1..Len(run) :
    /\ (run[r].pc \notin {"file", "export"} /\ RequestFailed(r)) =>
         /\ run[r].pc = "failed"
         /\ run[r].outcome = Rejected(ErrorOf(run[r].wait))
         /\ run[r].fetched = <<>>
         /\ run[r].wrote = <<>>
    /\ \A t \in 1..Len(task) :
         (task[t].fn.run = r /\ t # run[r].wait) =>
           /\ task[t].future.st = "resolved"
           /\ task[t].fn.endpoint = "images" => ~Truthy(task[t].future.val.err)

\* a failed run does nothing more: no request is scheduled for it, its
\* locals stay, and the cache is not written
C10_Stopped ==
  \A r \in 1..Len(run) :
    run[r].pc = "failed" =>
      /\ run'[r] = run[r]
      /\ fs' = fs
      /\ Len(task') > Len(task) => task'[Len(task')].fn.run # r

\* C10 amended: failure of the file fetch or of any export batch is fatal to
\* the whole exportAllFrames call: the call rejects with the error of the
\* failed request (status code and body text for a non-success HTTP
\* response, the err string for an export response with err set, the error
\* of fetch when no response came), and afterwards no request is scheduled
\* and no image is downloaded or written by that call
C10_RequestFailureFatal == [](C10_Fatal) /\ [][C10_Stopped]_vars

\* C10 witness: a call for more than one batch of frames has failed on its
\* second batch, answered with a non-success status, after time had passed
\* during the call
C10_Witness ==
  /\ Len(run) = 1
  /\ run[1].pc = "failed"
  /\ run[1].i = BatchSize
  /\ Len(task) = 3
  /\ run[1].wait = 3
  /\ ~task[3].resp.failed
  /\ ~task[3].resp.ok
  /\ run[1].outcome = Rejected(ApiError(task[3].resp.status, task[3].resp.text))
  /\ ticks > 0

-----------------------------------------------------------------------------
(* Properties of the export batches *)

\* the export requests of run r, in the order they were scheduled
ImageTasksOf(r) ==
  SelectSeq([t \in 1..Len(task) |-> t],
            LAMBDA t : task[t].fn.run = r /\ task[t].fn.endpoint = "images")

\* run r has resumed from the await of its request t
Consumed(r, t) == t # run[r].wait \/ run[r].pc \notin {"file", "export"}

\* the indices in frames of the batch that the n-th export request asks for
BatchFrames(r, n) ==
  {j \in 1..Len(run[r].frames) : (n - 1) * BatchSize < j /\ j <= n * BatchSize}

\* C11 as stated: an export response with a non-null err (any string), or a
\* non-success status, fails the batch and the call, and no imageUrl of the
\* batch is populated from it
C11_NonNullErrFailsBatch ==
  \A r \in 1..Len(run) :
    LET T == ImageTasksOf(r)
    IN  \A n \in 1..Len(T) :
          (/\ Consumed(r, T[n])
           /\ \/ task[T[n]].future.st = "rejected"
              \/ ~task[T[n]].future.val.err.null)
            => /\ run[r].pc = "failed"
               /\ \A j \in BatchFrames(r, n) : run[r].frames[j].imageUrl = EmptyUrl

\* the number of the batch that holds frame j: slice(i, i + batchSize) for
\* i = 0, batchSize, 2 * batchSize, ...
BatchOf(j) == ((j - 1) \div BatchSize) + 1

\* the export requests of run r that were answered with URLs and that the
\* run has resumed from, by their number
Answered(r) ==
  LET T == ImageTasksOf(r)
  IN  {n \in 1..Len(T) :
         /\ Consumed(r, T[n])
         /\ task[T[n]].future.st = "resolved"
         /\ ~Truthy(task[T[n]].future.val.err)}

\* C12: after a successful export batch every node of the batch has the URL
\* that the response maps its own nodeId to, a node absent from the response
\* keeps imageUrl = '' and no error is raised for it, and nodes of batches
\* not yet answered have no URL
C12_UrlsByNodeId ==
  \A r \in 1..Len(run) :
    LET T == ImageTasksOf(r)
        answered == Answered(r)
    IN  /\ \A j \in 1..Len(run[r].frames) :
             LET id == run[r].frames[j].nodeId
                 n == BatchOf(j)
             IN  run[r].frames[j].imageUrl =
                   IF n \in answered /\ id \in DOMAIN task[T[n]].future.val.images
                     THEN task[T[n]].future.val.images[id]
                     ELSE EmptyUrl
        /\ (run[r].pc = "failed" /\ Len(T) \in answered /\ run[r].wait = T[Len(T)])
             => run[r].fetched # <<>>

\* C12 witness: the response to a batch of three nodes left out the first
\* and the third; the call returned, the second node has its own URL and the
\* other two none
C12_Witness ==
  /\ Len(run) = 1
  /\ run[1].pc = "done"
  /\ Len(run[1].frames) = 3
  /\ run[1].frames[1].imageUrl = EmptyUrl
  /\ run[1].frames[2].imageUrl = Url(run[1].frames[2].nodeId)
  /\ run[1].frames[3].imageUrl = EmptyUrl
  /\ DOMAIN task[2].future.val.images = {run[1].frames[2].nodeId}

\* ceil(n / batchSize)
BatchesFor(n) == (n + BatchSize - 1) \div BatchSize

\* run r is past its batch loop: every batch was answered
BatchesDone(r) ==
  \/ run[r].pc \in {"access-dir", "mkdir", "access-file", "fetch", "write", "done"}
  \/ run[r].pc = "failed" /\ run[r].fetched # <<>>

\* C13: the export requests of a call are, in the order they were scheduled,
\* the contiguous batches of its node list: request n asks for the ids of
\* nodes (n-1)*100+1 .. n*100 (the last one for what is left), on the tier-1
\* limiter of the client; request n+1 is scheduled only when request n has
\* been answered; and a call whose batches were all answered has issued
\* exactly ceil(n/100) requests
C13_ContiguousBatches ==
  \A r \in 1..Len(run) :
    LET T == ImageTasksOf(r)
        F == run[r].frames
    IN  /\ Len(T) <= BatchesFor(Len(F))
        /\ BatchesDone(r) => Len(T) = BatchesFor(Len(F))
        /\ \A n \in 1..Len(T) :
             LET lo == (n - 1) * BatchSize
                 hi == IF n * BatchSize < Len(F) THEN n * BatchSize ELSE Len(F)
                 ids == task[T[n]].fn.ids
             IN  /\ task[T[n]].lim = <<run[r].client, "tier1">>
                 /\ Len(ids) = hi - lo
                 /\ Len(ids) >= 1
                 /\ Len(ids) <= BatchSize
                 /\ \A k \in 1..Len(ids) : ids[k] = F[lo + k].nodeId
                 /\ n < Len(T) => n \in Answered(r)

\* C13 witness: a call for 101 nodes is past its batch loop, having issued
\* two export requests, for 100 ids and for 1 id; a call for no node at all
\* is covered by the document without frames
C13_Witness ==
  /\ Len(run) = 1
  /\ run[1].pc = "done"
  /\ Len(run[1].frames) = BatchSize + 1
  /\ Len(ImageTasksOf(1)) = 2
  /\ Len(task[2].fn.ids) = BatchSize
  /\ Len(task[3].fn.ids) = 1

-----------------------------------------------------------------------------
(* Properties of the cache *)

\* the cache key of frame j of run record R
KeyOf(R, j) == CacheKey(R.frames[j].nodeId)

\* a step of run r that resumes downloadAndCacheImage from access(cachePath)
\* with the file present
HitStep(r) ==
  /\ run[r].pc = "access-file"
  /\ run'[r] # run[r]
  /\ fs.dir
  /\ KeyOf(run[r], run[r].k) \in DOMAIN fs.files

\* on a hit the path is returned, no GET is issued and nothing is written
C14_Hit ==
  \A r \in 1..Len(run) :
    HitStep(r) =>
      /\ fs' = fs
      /\ run'[r].fetched = run[r].fetched
      /\ run'[r].wrote = run[r].wrote
      /\ run'[r].pc \notin {"fetch", "write", "failed"}
      /\ run'[r].frames[run[r].k].localPath = CachePath(KeyOf(run[r], run[r].k))

\* a file of the cache is neither removed nor changed
C14_Kept ==
  /\ fs.dir => fs'.dir
  /\ \A key \in DOMAIN fs.files :
       key \in DOMAIN fs'.files /\ fs'.files[key] = fs.files[key]

FailedOnDownload(r) == run[r].pc = "failed" /\ run[r].fetched # <<>>

\* C15: cache miss: one GET is issued for the node's own URL; on a
\* non-success status the call of downloadAndCacheImage fails and nothing
\* is written, the key stays a miss; on success the body of the response is
\* the file at the derived path and that path is returned
C15_CacheMiss ==
  \A r \in 1..Len(run) :
    LET R == run[r]
        nf == Len(R.fetched)
        nw == Len(R.wrote)
        open == R.pc \in {"fetch", "write"} \/ FailedOnDownload(r)
    IN  /\ \A a, b \in 1..nf : a < b => R.fetched[a] < R.fetched[b]
        /\ nw = IF open THEN nf - 1 ELSE nf
        /\ \A a \in 1..nw :
             LET j == R.fetched[a]
             IN  /\ R.wrote[a] = KeyOf(R, j)
                 /\ fs.dir
                 /\ KeyOf(R, j) \in DOMAIN fs.files
                 /\ fs.files[KeyOf(R, j)] = Body(R.frames[j].imageUrl)
                 /\ R.frames[j].localPath = CachePath(KeyOf(R, j))
        /\ open =>
             /\ KeyOf(R, R.fetched[nf]) \notin DOMAIN fs.files
             /\ R.frames[R.fetched[nf]].localPath = NoPath
        /\ FailedOnDownload(r) =>
             R.outcome.val.kind \in {"DownloadError", "FetchTypeError"}
        /\ \A j \in 1..Len(R.frames) :
             R.frames[j].localPath # NoPath =>
               /\ R.frames[j].localPath = CachePath(KeyOf(R, j))
               /\ KeyOf(R, j) \in DOMAIN fs.files

\* C15 witness: the first node was downloaded and written, the GET for the
\* second was answered 404: the call failed, the second key is still a miss
C15_Witness ==
  /\ Len(run) = 1
  /\ run[1].pc = "failed"
  /\ run[1].fetched = <<1, 2>>
  /\ Len(run[1].wrote) = 1
  /\ run[1].outcome = Rejected(DownloadError(404))
  /\ KeyOf(run[1], 1) \in DOMAIN fs.files
  /\ KeyOf(run[1], 2) \notin DOMAIN fs.files

-----------------------------------------------------------------------------
(* findFrames called on its own.  The input documents are all the trees of  *)
(* up to MaxNodes nodes: node 1 is the root, the parent of a node has a     *)
(* smaller number, and the children of a node are in the order of their     *)
(* numbers.                                                                 *)

\* type and presence of absoluteBoundingBox of a node
Labels ==
  {<<"FRAME", TRUE>>, <<"COMPONENT", TRUE>>, <<"FRAME", FALSE>>,
   <<"COMPONENT", FALSE>>, <<"TEXT", TRUE>>}

\* the names of the nodes: all different, or all the same
Namings == {"distinct", "same"}

\* the ways to give each node but the root a parent of a smaller number
Parents(n) == {p \in [2..n -> 1..n] : \A i \in 2..n : p[i] < i}

Trees ==
  UNION { [n : {n}, par : Parents(n), label : [1..n -> Labels], naming : Namings] :
            n \in 1..MaxNodes }

IdOf(i) == <<"9", ":">> \o Decimal(i)

NameOf(tr, i) == IF tr.naming = "same" THEN "Layer" ELSE IdOf(i)[3]

\* the children of node i, in their order
ChildrenOf(tr, i) ==
  LET kids == {c \in 2..tr.n : tr.par[c] = i}
  IN  [k \in 1..Cardinality(kids) |->
         CHOOSE c \in kids : Cardinality({d \in kids : d < c}) = k - 1]

\* the FigmaNode of node i of the tree
RECURSIVE NodeOf(_, _)
NodeOf(tr, i) ==
  LET kids == ChildrenOf(tr, i)
  IN  Node(IdOf(i), NameOf(tr, i), tr.label[i][1],
           IF tr.label[i][2] THEN Box(i, i, 10 * i, 20 * i) ELSE NoBox,
           [k \in 1..Len(kids) |-> NodeOf(tr, kids[k])])

\* a call findFrames(node) of the client, before it ran
NewFind(tr) == [pc |-> "findFrames", tree |-> tr, node |-> NodeOf(tr, 1), frames |-> <<>>]

InitFind ==
  /\ clock = StartClock
  /\ ticks = 0
  /\ limiter = [l \in {"c1"} \X Tiers |-> NewRateLimiter(RateOf(l[2]))]
  /\ task = <<>>
  /\ log = <<>>
  /\ fs = NoCache
  /\ \E tr \in Trees : run = <<NewFind(tr)>>

\* lines 268-296: findFrames(node) runs and returns
FindFrames(r) ==
  /\ r \in 1..Len(run)
  /\ run[r].pc = "findFrames"
  /\ run' = [run EXCEPT ![r].frames = findFrames(run[r].node, <<>>),
                        ![r].pc = "found"]
  /\ UNCHANGED <<clock, ticks, limiter, task, log, fs>>

NextFind == \E r \in RunSlots : FindFrames(r)

SpecFind == InitFind /\ [][NextFind]_vars

-----------------------------------------------------------------------------
(* Properties of findFrames *)

\* the numbers of the nodes from the root down to node i
RECURSIVE Chain(_, _)
Chain(tr, i) == IF i = 1 THEN <<1>> ELSE Append(Chain(tr, tr.par[i]), i)

\* node i has type FRAME or COMPONENT and a bounding box
Qualifies(tr, i) == tr.label[i] \in {<<"FRAME", TRUE>>, <<"COMPONENT", TRUE>>}

\* the number of the node that entry f of the result was made from
NumberOf(tr, f) == CHOOSE i \in 1..tr.n : IdOf(i) = f.nodeId

\* C16: the list returned by findFrames holds exactly the nodes of type
\* FRAME or COMPONENT that have a bounding box, each once, whatever their
\* depth and whatever their ancestors are
C16_ExactlyQualifying ==
  \A r \in 1..Len(run) :
    run[r].pc = "found" =>
      LET tr == run[r].tree
          F == run[r].frames
      IN  /\ {F[k].nodeId : k \in 1..Len(F)} = {IdOf(i) : i \in {j \in 1..tr.n : Qualifies(tr, j)}}
          /\ Len(F) = Cardinality({j \in 1..tr.n : Qualifies(tr, j)})

\* C16 witness: a component below a text below a frame without bounding
\* box, and a text with a bounding box: only the component is returned
C16_Witness ==
  /\ Len(run) = 1
  /\ run[1].pc = "found"
  /\ run[1].tree.n = 4
  /\ run[1].tree.par = [i \in 2..4 |-> IF i = 4 THEN 1 ELSE i - 1]
  /\ run[1].tree.label[1] = <<"FRAME", FALSE>>
  /\ run[1].tree.label[2] = <<"TEXT", TRUE>>
  /\ run[1].tree.label[3] = <<"COMPONENT", TRUE>>
  /\ run[1].tree.label[4] = <<"TEXT", TRUE>>
  /\ Len(run[1].frames) = 1
  /\ run[1].frames[1].nodeId = IdOf(3)

\* node i comes before node j in depth-first pre-order: i is an ancestor of
\* j, or where their chains part the one of i goes to the earlier sibling
PreOrderBefore(tr, i, j) ==
  LET ci == Chain(tr, i)
      cj == Chain(tr, j)
      m == IF Len(ci) < Len(cj) THEN Len(ci) ELSE Len(cj)
      diff == {k \in 1..m : ci[k] # cj[k]}
  IN  IF diff = {} THEN Len(ci) < Len(cj)
      ELSE LET k == CHOOSE x \in diff : \A y \in diff : x <= y
           IN  ci[k] < cj[k]

\* C17: findFrames returns the nodes in depth-first pre-order: a node before
\* the nodes of its subtree, the subtree of an earlier sibling before
\* anything of a later sibling
C17_PreOrder ==
  \A r \in 1..Len(run) :
    run[r].pc = "found" =>
      LET tr == run[r].tree
          F == run[r].frames
      IN  \A a, b \in 1..Len(F) :
            a < b => PreOrderBefore(tr, NumberOf(tr, F[a]), NumberOf(tr, F[b]))

\* C17 witness: node 1 holds nodes 2 and 3 and node 2 holds node 4, all of
\* them frames: they are returned as 1, 2, 4, 3
C17_Witness ==
  /\ Len(run) = 1
  /\ run[1].pc = "found"
  /\ run[1].tree.n = 4
  /\ run[1].tree.par = [i \in 2..4 |-> IF i = 4 THEN 2 ELSE 1]
  /\ [k \in 1..Len(run[1].frames) |-> run[1].frames[k].nodeId]
       = <<IdOf(1), IdOf(2), IdOf(4), IdOf(3)>>

\* the names from the root down to node i with ' / ' between them
PathOf(tr, i) ==
  LET c == Chain(tr, i)
  IN  [m \in 1..(2 * Len(c) - 1) |->
         IF m % 2 = 1 THEN NameOf(tr, c[(m + 1) \div 2]) ELSE " / "]

-----------------------------------------------------------------------------
(* Properties of the list exportAllFrames works on and returns *)

\* what findFrames discovers in each of the documents
Discovered == [d \in Documents |-> findFrames(d, <<>>)]

\* the getFile request of run r
FileTaskOf(r) ==
  CHOOSE t \in 1..Len(task) : task[t].fn.run = r /\ task[t].fn.endpoint = "files"

\* run r has resumed from getFile with a document
HasDocument(r) ==
  /\ run[r].pc # "file"
  /\ task[FileTaskOf(r)].future.st = "resolved"

\* C19: when more nodes are discovered than maxFrames, exportAllFrames keeps
\* the first maxFrames of them in discovery order, else all of them: the
\* list it exports and returns has length min(discovered, maxFrames) and is
\* a prefix of the discovery order, and only nodes of that prefix are asked
\* for in export requests
C19_FirstMaxFrames ==
  \A r \in 1..Len(run) :
    HasDocument(r) =>
      LET D == Discovered[task[FileTaskOf(r)].future.val.document]
          F == run[r].frames
          T == ImageTasksOf(r)
          max == run[r].opts.maxFrames
      IN  /\ Len(F) = IF Len(D) > max THEN max ELSE Len(D)
          /\ \A j \in 1..Len(F) :
               /\ F[j].nodeId = D[j].nodeId
               /\ F[j].name = D[j].name
               /\ F[j].path = D[j].path
          /\ \A n \in 1..Len(T) :
               \A k \in 1..Len(task[T[n]].fn.ids) :
                 /\ (n - 1) * BatchSize + k <= max
                 /\ task[T[n]].fn.ids[k] = D[(n - 1) * BatchSize + k].nodeId

\* C19 witness: three nodes were discovered and maxFrames is 2: the call
\* returned the first two, having asked for the images of those two only
C19_Witness ==
  /\ Len(run) = 1
  /\ run[1].pc = "done"
  /\ run[1].opts.maxFrames = 2
  /\ Len(Discovered[task[1].future.val.document]) = 3
  /\ Len(run[1].frames) = 2
  /\ Len(task[2].fn.ids) = 2

\* run r is in ensureCacheDir or in downloadAndCacheImage
InDownloadPhase(r) == run[r].pc \in {"access-dir", "mkdir", "access-file", "fetch", "write"}

\* localPath is set only for nodes with an image URL and only when
\* downloadImages is true; the cache is consulted and GETs are issued only
\* for nodes with an image URL; without downloadImages the call never
\* enters ensureCacheDir or downloadAndCacheImage
C20_OnlyWithUrl ==
  \A r \in 1..Len(run) :
    LET R == run[r]
    IN  /\ \A j \in 1..Len(R.frames) :
             R.frames[j].localPath # NoPath =>
               R.opts.downloadImages /\ R.frames[j].imageUrl # EmptyUrl
        /\ \A a \in 1..Len(R.fetched) : R.frames[R.fetched[a]].imageUrl # EmptyUrl
        /\ R.pc \in {"access-file", "fetch", "write"} => R.frames[R.k].imageUrl # EmptyUrl
        /\ ~R.opts.downloadImages =>
             /\ ~InDownloadPhase(r)
             /\ R.fetched = <<>>
             /\ R.wrote = <<>>
        /\ (R.pc = "failed" /\ ~RequestFailed(r)) => R.fetched # <<>>

\* while every call has downloadImages = false the cache stays as it is
C20_CacheUntouched ==
  (\A r \in 1..Len(run') : ~run'[r].opts.downloadImages) => fs' = fs

\* C20: in the list returned by exportAllFrames a node has localPath only if
\* downloadImages was true and its imageUrl is not empty; a node without
\* imageUrl is passed over without a download attempt and without failing
\* the call; with downloadImages = false nothing is downloaded, no cache
\* directory is made and nothing is written
C20_LocalPathOnlyWithUrl == [](C20_OnlyWithUrl) /\ [][C20_CacheUntouched]_vars

\* C20 witness: the call returned three nodes; the first and the third have
\* no imageUrl and no localPath, no GET was issued for them; the second was
\* downloaded
C20_Witness ==
  /\ Len(run) = 1
  /\ run[1].pc = "done"
  /\ Len(run[1].frames) = 3
  /\ run[1].frames[1].imageUrl = EmptyUrl
  /\ run[1].frames[1].localPath = NoPath
  /\ run[1].frames[2].imageUrl # EmptyUrl
  /\ run[1].frames[2].localPath # NoPath
  /\ run[1].frames[3].localPath = NoPath
  /\ run[1].fetched = <<2>>

-----------------------------------------------------------------------------
(* The order of the steps of exportAllFrames *)

\* the requests of run r for the document
FileTasksOf(r) ==
  {t \in 1..Len(task) : task[t].fn.run = r /\ task[t].fn.endpoint = "files"}

\* C21: one exportAllFrames call issues exactly one request for the
\* document, on the tier-2 limiter, and it has completed before any export
\* request is scheduled; every export request is on the tier-1 limiter; no
\* image is looked up or downloaded before the last export batch completed
C21_StepOrder ==
  \A r \in 1..Len(run) :
    LET T == ImageTasksOf(r)
    IN  /\ Cardinality(FileTasksOf(r)) = 1
        /\ \A t \in FileTasksOf(r) :
             /\ task[t].lim = <<run[r].client, "tier2">>
             /\ \A n \in 1..Len(T) : t < T[n]
             /\ T # <<>> => task[t].state = "done" /\ task[t].future.st = "resolved"
             /\ run[r].pc = "file" => T = <<>>
        /\ \A n \in 1..Len(T) : task[T[n]].lim = <<run[r].client, "tier1">>
        /\ (InDownloadPhase(r) \/ run[r].fetched # <<>> \/ run[r].wrote # <<>>) =>
             /\ Len(T) = BatchesFor(Len(run[r].frames))
             /\ \A n \in 1..Len(T) : task[T[n]].state = "done" /\ n \in Answered(r)
        /\ \A j \in 1..Len(run[r].frames) :
             run[r].frames[j].localPath # NoPath =>
               Len(T) = BatchesFor(Len(run[r].frames))

\* C21 witness: a call for 101 nodes is downloading: its document request
\* went through the tier-2 limiter and both export requests, through the
\* tier-1 limiter, are done
C21_Witness ==
  /\ Len(run) = 1
  /\ run[1].pc = "fetch"
  /\ Len(run[1].frames) = BatchSize + 1
  /\ Len(task) = 3
  /\ task[1].lim = <<"c1", "tier2">>
  /\ task[2].lim = <<"c1", "tier1">>
  /\ task[3].lim = <<"c1", "tier1">>
  /\ task[3].state = "done"

-----------------------------------------------------------------------------
(* The drain loop: settlement order, recorded time, blocking, the latch *)

\* C25: the futures of the tasks submitted to one RateLimiter settle in
\* submission order: a settled future has no pending future of an earlier
\* task of that limiter before it, and a step settles the future of the
\* oldest unsettled task only
C25_SettleInOrder ==
  /\ [](\A t1, t2 \in 1..Len(task) :
          /\ t1 < t2
          /\ task[t1].lim = task[t2].lim
          /\ task[t2].future.st # "pending"
          => task[t1].future.st # "pending")
  /\ [][\A t \in 1..Len(task) :
          task[t].future.st = "pending" /\ task'[t].future.st # "pending" =>
            \A u \in 1..(t - 1) :
              task[u].lim = task[t].lim => task[u].future.st # "pending"]_vars

\* C25 witness: three tasks of one limiter have all settled, the second one
\* by a rejection
C25_Witness ==
  /\ Len(task) = 3
  /\ \A t \in 1..3 : task[t].future.st # "pending"
  /\ task[2].future.st = "rejected"
  /\ Len(log) = 3

\* the drain loop's bookkeeping in one step, for limiter l
C26_Step(l) ==
  LET L       == limiter[l]
      L2      == limiter'[l]
      elapsed == clock - L.lastRequestTime
      resumed == \E a \in L.loops : a.pc = "task" /\ a \notin L2.loops
      started == Len(log') = Len(log) + 1 /\ log'[Len(log')].lim = l
  IN  \* a wait begins only when less than minDelay has elapsed, and lasts
      \* minDelay - elapsed
      /\ \A a \in L2.loops \ L.loops :
           a.pc = "sleep" =>
             /\ elapsed < L.minDelay
             /\ a.wake - clock = L.minDelay - elapsed
      \* a dispatch records the clock of the step that starts the task
      /\ started =>
           /\ log'[Len(log')].at = clock
           /\ L2.lastRequestTime = clock
           /\ log'[Len(log')].by = "timer" =>
                \E a \in L.loops : a.pc = "sleep" /\ clock >= a.wake
           /\ log'[Len(log')].by # "timer" => elapsed >= L.minDelay
      \* after a task that took minDelay or more the next one starts at once
      /\ resumed /\ L.queue # <<>> /\ elapsed >= L.minDelay =>
           /\ started
           /\ log'[Len(log')].task = Head(L.queue)
           /\ log'[Len(log')].by = "resume"

\* C26: the drain loop records as the last-dispatch time the clock at the
\* moment a task actually starts, after any wait; before a dispatch it waits
\* max(0, minDelay - elapsed), elapsed measured from that recorded time; a
\* task that ran for minDelay or longer is followed by the next task with no
\* added wait
C26_ActualStartRecorded ==
  /\ [](\A l \in DOMAIN limiter :
          LET D == DispatchesOf(l)
          IN  /\ limiter[l].lastRequestTime = IF D = <<>> THEN 0 ELSE D[Len(D)].at
              /\ \A a \in limiter[l].loops :
                   a.pc = "sleep" =>
                     a.wake = limiter[l].lastRequestTime + limiter[l].minDelay)
  /\ [][\A l \in DOMAIN limiter : C26_Step(l)]_vars

\* C26 witness: a timer fired late, and the later time is the recorded one;
\* then the task ran for longer than minDelay and the next one started in
\* the step that resumed the loop
C26_Witness ==
  /\ Len(log) = 3
  /\ log[2].by = "timer"
  /\ log[2].at > log[1].at + limiter[Solo].minDelay
  /\ log[3].by = "resume"
  /\ log[3].at >= log[2].at + limiter[Solo].minDelay
  /\ limiter[Solo].lastRequestTime = log[3].at

\* C27: there is no per-call timeout: while a dispatched task has not
\* settled, every task submitted to its limiter after it stays in the queue,
\* not dispatched and its future pending, however much time passes; a task
\* submitted meanwhile is accepted at the end of the queue
C27_BlockedBehindUnsettled ==
  /\ [](\A t \in 1..Len(task) :
          task[t].state = "running" =>
            LET L == limiter[task[t].lim]
            IN  /\ L.processing
                /\ L.loops = {Awaiting(t)}
                /\ \A u \in (t + 1)..Len(task) :
                     task[u].lim = task[t].lim =>
                       /\ task[u].state = "queued"
                       /\ task[u].future.st = "pending"
                       /\ \E i \in 1..Len(L.queue) : L.queue[i] = u)
  /\ [][\A t \in 1..Len(task) :
          /\ task[t].state = "running"
          /\ Len(task') = Len(task) + 1
          /\ task'[Len(task')].lim = task[t].lim
          => /\ limiter'[task[t].lim].queue =
                  Append(limiter[task[t].lim].queue, Len(task'))
             /\ task'[Len(task')].state = "queued"
             /\ Len(log') = Len(log)]_vars

\* C27 witness: the first task never settled while all the time of the model
\* passed; two tasks submitted after its dispatch wait in the queue
C27_Witness ==
  /\ Len(task) = 3
  /\ task[1].state = "running"
  /\ ticks = MaxTicks
  /\ task[2].seen = 1
  /\ task[3].seen = 1
  /\ limiter[Solo].queue = <<2, 3>>
  /\ clock > log[1].at + limiter[Solo].minDelay

\* C29: the latch: at most one drain loop is active per limiter, and
\* whenever processing is false the queue is empty (and no loop is active)
C29_Latch ==
  \A l \in DOMAIN limiter :
    /\ Cardinality(limiter[l].loops) <= 1
    /\ ~limiter[l].processing => limiter[l].queue = <<>>
    /\ limiter[l].processing <=> limiter[l].loops # {}

\* C29 witness: schedule() was called while a loop was active and then the
\* loop drained the queue and released the latch
C29_Witness ==
  /\ Len(task) = 3
  /\ ~task[2].entered
  /\ ~task[3].entered
  /\ ~limiter[Solo].processing
  /\ \A t \in 1..3 : task[t].state = "done"

-----------------------------------------------------------------------------
(* findFrames on a frame or component without bounding box *)

\* findFrames was called on a node of type FRAME or COMPONENT that has no
\* absoluteBoundingBox
OnBoxless(r) ==
  /\ run[r].pc = "found"
  /\ run[r].node.type \in {"FRAME", "COMPONENT"}
  /\ run[r].node.absoluteBoundingBox = NoBox

\* C28 as stated: findFrames called on a node of type FRAME or COMPONENT
\* that lacks a bounding box returns the empty list
C28_BoxlessGivesEmpty ==
  \A r \in 1..Len(run) : OnBoxless(r) => run[r].frames = <<>>

\* C28: findFrames called on a node of type FRAME or COMPONENT that lacks a
\* bounding box returns no entry for that node; the list is the one of the
\* node's descendants, empty exactly when none of them is a FRAME or
\* COMPONENT with a bounding box
C28_BoxlessSkipsItself ==
  \A r \in 1..Len(run) :
    OnBoxless(r) =>
      LET tr == run[r].tree
          F == run[r].frames
          below == {j \in 2..tr.n : Qualifies(tr, j)}
      IN  /\ \A k \in 1..Len(F) : F[k].nodeId # run[r].node.id
          /\ F = <<>> <=> below = {}
          /\ {NumberOf(tr, F[k]) : k \in 1..Len(F)} = below

\* C28 witness: a component without bounding box that holds a frame with
\* one and a frame without one: the list has the first frame only
C28_Witness ==
  /\ Len(run) = 1
  /\ OnBoxless(1)
  /\ run[1].tree.n = 3
  /\ run[1].tree.label = <<(<<"COMPONENT", FALSE>>), (<<"FRAME", TRUE>>), (<<"FRAME", FALSE>>)>>
  /\ run[1].tree.par = [i \in 2..3 |-> 1]
  /\ Len(run[1].frames) = 1
  /\ run[1].frames[1].nodeId = IdOf(2)

-----------------------------------------------------------------------------
(* Calls of exportAllFrames and clearCache of one client that overlap: they *)
(* share the client's limiters and its cache directory.  The API and the    *)
(* image host answer every request with success.                            *)

\* a page with one frame
SoloDoc ==
  Node(<<"0", ":", "0">>, "Document", "DOCUMENT", NoBox, <<
    Node(<<"0", ":", "1">>, "Page1", "CANVAS", NoBox, <<
      Node(<<"1", ":", "2">>, "Card", "FRAME", Box(0, 0, 300, 200), <<>>) >>) >>)


\* the calls one behaviour makes, and those of exportAllFrames among them
CallSlots == {1, 2, 3}
ExportSlots == {1, 2}

\* line 308: the default options
DefaultOptions == [maxFrames |-> DefaultMaxFrames, downloadImages |-> TRUE]

\* the locals of one clearCache call: suspended in the dynamic import
NewClear(c) ==
  [client |-> c, pc |-> "import", outcome |-> Pending, removed |-> {}]

\* the call is one of clearCache
IsClear(r) == run[r].pc \in {"import", "rm", "cleared"}

\* line 439: clearCache() up to `await import('fs/promises')`
ClearCache(c) ==
  /\ run' = Append(run, NewClear(c))
  /\ UNCHANGED <<clock, ticks, limiter, task, log, fs>>

\* lines 439-441: the import settled, rm(this.cacheDir, ...) is called
ClearImported(r) ==
  /\ r \in 1..Len(run)
  /\ run[r].pc = "import"
  /\ run' = [run EXCEPT ![r].pc = "rm"]
  /\ UNCHANGED <<clock, ticks, limiter, task, log, fs>>

\* a plausible slip: rm without recursive, which fails on a directory that
\* holds files; the catch swallows the error
RmForce(f) == IF f.files = <<>> THEN NoCache ELSE f

\* line 441: rm(dir, { recursive: true, force: true }): the directory and
\* all below it are gone; no error when there is none
RmRecursiveForce(f) == NoCache

\* lines 441-445: rm settled; clearCache returns (removed is history: the
\* keys of the files that were there)
ClearRm(r) ==
  /\ r \in 1..Len(run)
  /\ run[r].pc = "rm"
  /\ fs' = RmRecursiveForce(fs)
  /\ run' = [run EXCEPT ![r].pc = "cleared",
                        ![r].outcome = Resolved([kind |-> "void"]),
                        ![r].removed = DOMAIN fs.files]
  /\ UNCHANGED <<clock, ticks, limiter, task, log>>

InitCache ==
  /\ clock = StartClock
  /\ ticks = 0
  /\ limiter = [l \in {"c1"} \X Tiers |-> NewRateLimiter(RateOf(l[2]))]
  /\ task = <<>>
  /\ log = <<>>
  /\ run = <<>>
  /\ fs = NoCache

CacheCalls ==
  /\ Len(run) < Cardinality(CallSlots)
  /\ \/ /\ Cardinality({r \in 1..Len(run) : ~IsClear(r)}) < Cardinality(ExportSlots)
        /\ ExportAllFrames("c1", DefaultOptions)
     \/ ClearCache("c1")

\* the API answers with the document, or with every image
CacheReplies(fn) ==
  IF fn.endpoint = "files"
    THEN {HttpOk([kind |-> "file", document |-> SoloDoc])}
    ELSE {HttpOk(ImagesJson(JsNull, Range(fn.ids)))}

\* lines 187-200: the response arrives and the thunk of request() settles
CacheApiAnswers ==
  \E t \in {x \in 1..Len(task) : task[x].state = "running"} :
    \E resp \in CacheReplies(task[t].fn) :
      FnSettle(t, RequestOutcome(resp), StatusLine(resp))

\* the bytes the image host serves at url; by is history: the call that
\* received them
BodyFor(url, r) == [kind |-> "png", of |-> url, by |-> r]

CacheDownloads ==
  \E r \in {x \in 1..Len(run) : run[x].pc = "fetch"} :
    Downloaded(r, HttpOk(BodyFor(run[r].frames[run[r].k].imageUrl, r)))

CacheResumes ==
  \E r \in CallSlots :
    \/ AfterGetFile(r)
    \/ AfterExport(r)
    \/ EnsureAccess(r)
    \/ EnsureMkdir(r)
    \/ CacheLookup(r)
    \/ CacheWrite(r)
    \/ ClearImported(r)
    \/ ClearRm(r)

NextCache ==
  \/ CacheCalls
  \/ CacheApiAnswers
  \/ CacheResumes
  \/ CacheDownloads
  \/ LoopResumes
  \/ TimerFires
  \/ TimerDue

SpecCache == InitCache /\ [][NextCache]_vars

-----------------------------------------------------------------------------
(* Properties of the shared cache directory *)

\* the cache key of the frame call r is downloading
KeyAt(r) == CacheKey(run[r].frames[run[r].k].nodeId)

\* the cache key of the frame of SoloDoc
SoloKey == CacheKey(SoloDoc.children[1].children[1].id)

\* C22 as stated: whatever exportAllFrames and clearCache calls ran or are
\* running, no cache write fails because the cache directory is missing
C22_WriteFindsDirectory ==
  \A r \in 1..Len(run) : run[r].outcome # Rejected(NoEntError)

\* C23: clearCache removes the whole cache directory and resolves, also
\* when the directory is absent or was cleared before; with the cache
\* cleared a lookup of any key misses and the image is downloaded anew
C23_ClearEmptiesCache ==
  /\ [](\A r \in 1..Len(run) : IsClear(r) => run[r].outcome.st # "rejected")
  /\ [][\A r \in 1..Len(run) :
          /\ run[r].pc = "rm" /\ run'[r].pc = "cleared" =>
               /\ fs' = NoCache
               /\ run'[r].outcome.st = "resolved"
          /\ run[r].pc = "access-file" /\ run'[r].pc # "access-file" /\ fs = NoCache =>
               /\ run'[r].pc = "fetch"
               /\ run'[r].fetched = Append(run[r].fetched, run[r].k)]_vars

\* C23 witness: the first call cached an image, the second call cleared the
\* cache with that file in it, and the third call downloaded the image
\* again
C23_Witness ==
  /\ Len(run) = 3
  /\ run[1].pc = "done"
  /\ run[1].wrote # <<>>
  /\ run[2].pc = "cleared"
  /\ run[2].removed = {SoloKey}
  /\ run[3].pc = "done"
  /\ run[3].fetched = <<1>>
  /\ SoloKey \in DOMAIN fs.files
  /\ fs.files[SoloKey].by = 3

\* C24: calls of exportAllFrames that share a cache directory are not
\* serialized: a lookup misses whenever the file is not there, whoever is
\* downloading it, and a write that succeeds replaces whatever file is
\* there, so the file holds the bytes of the last write
C24_LastWriteWins ==
  [][\A r \in 1..Len(run) :
       /\ run[r].pc = "access-file" /\ run'[r].pc # "access-file" =>
            (run'[r].pc = "fetch" <=> ~(fs.dir /\ KeyAt(r) \in DOMAIN fs.files))
       /\ run[r].pc = "write" /\ run'[r].pc \notin {"write", "failed"} =>
            /\ fs'.files[KeyAt(r)] = run[r].buf
            /\ \A x \in DOMAIN fs.files \ {KeyAt(r)} :
                 x \in DOMAIN fs'.files /\ fs'.files[x] = fs.files[x]]_vars

\* C24 witness: two calls and no clearCache; both missed the key of the
\* same node, both downloaded and both wrote; the file holds what the first
\* call received, which wrote last
C24_Witness ==
  /\ Len(run) = 2
  /\ \A r \in 1..2 :
       /\ run[r].pc = "done"
       /\ run[r].fetched = <<1>>
       /\ run[r].wrote = <<SoloKey>>
  /\ fs.files[SoloKey].by = 1

-----------------------------------------------------------------------------
(* One cached file per node *)

\* call r returned with every frame rendered, having written every file of
\* the cache itself: the cache was empty when it began to download
AllDownloaded(r) ==
  /\ run[r].pc = "done"
  /\ run[r].opts.downloadImages
  /\ run[r].frames # <<>>
  /\ \A j \in 1..Len(run[r].frames) : run[r].frames[j].imageUrl # EmptyUrl
  /\ DOMAIN fs.files \subseteq Range(run[r].wrote)
  /\ \A a, b \in 1..Len(run[r].frames) :
       a # b => run[r].frames[a].nodeId # run[r].frames[b].nodeId

\* C30 as stated: after one exportAllFrames call with downloadImages, begun
\* with an empty cache, whose frames have pairwise distinct nodeIds and all
\* an image URL and whose downloads all succeeded, the localPaths are
\* pairwise distinct, one download was made per node, and the file at the
\* localPath of a node holds the bytes served at that node's own URL
C30_OwnFilePerNode ==
  \A r \in 1..Len(run) :
    AllDownloaded(r) =>
      LET F == run[r].frames
      IN  /\ \A a, b \in 1..Len(F) : a # b => F[a].localPath # F[b].localPath
          /\ run[r].fetched = [j \in 1..Len(F) |-> j]
          /\ \A j \in 1..Len(F) :
               /\ F[j].localPath = CachePath(CacheKey(F[j].nodeId))
               /\ CacheKey(F[j].nodeId) \in DOMAIN fs.files
               /\ fs.files[CacheKey(F[j].nodeId)] = Body(F[j].imageUrl)

====
